---------------------------- MODULE Spec2Model ----------------------------
(***************************************************************************)
(* news-site data layer (src/unnamed/part_001): loadNewsData /             *)
(* filterGenericNews, getFilteredGroups, getAllUniqueGroups and            *)
(* getNewsByGroups with its date sort.                                     *)
(*                                                                         *)
(* Strings the code inspects (URLs, group labels, titles, dates) are       *)
(* sequences of one-character strings, so that includes(), toLowerCase(),  *)
(* template concatenation and date parsing are computed, not assumed.      *)
(* Strings the code only copies (topic names, summaries) are atoms.        *)
(* A JavaScript object is an insertion-ordered sequence of [key, val]      *)
(* entries with distinct keys; an array is a sequence.                     *)
(***************************************************************************)
EXTENDS Integers, Sequences, FiniteSets, TLC

VARIABLES
    data,           \* yaml.load(fileContents): the collection as read from disk
    newsCollection, \* the collection loadNewsData returns (pages pass it on)
    filteredData,   \* result of getFilteredGroups(newsCollection)
    allGroups,      \* result of getAllUniqueGroups(newsCollection)
    groupedNews,    \* getNewsByGroups: the GroupedNews object being built
    itemGroupMap,   \* getNewsByGroups: Map<itemKey, Set<group>>
    t,              \* getNewsByGroups: index of the topic being visited
    g,              \* getNewsByGroups: index into that topic's validGroups
    k,              \* getNewsByGroups: index into Object.keys(groupedNews)
    pc,             \* position of the page build
    sortItems,      \* sorter on its own: the array handed to sort
    sortOnce,       \* sorter on its own: the array after one sort
    sortTwice,      \* sorter on its own: the array after a second sort
    spc,            \* sorter on its own: position
    candidates,     \* dedupe: the topic's raw candidates in discovery order
    scores,         \* dedupe: what the Similarity Scorer returns for each pair
    accepted,       \* dedupe: the articles accepted so far
    ci,             \* dedupe: index of the candidate being processed
    dpc             \* dedupe: position

vars == <<data, newsCollection, filteredData, allGroups, groupedNews,
          itemGroupMap, t, g, k, pc, sortItems, sortOnce, sortTwice, spc,
          candidates, scores, accepted, ci, dpc>>

pipelineVars == <<data, newsCollection, filteredData, allGroups, groupedNews,
                  itemGroupMap, t, g, k, pc>>

sorterVars == <<sortItems, sortOnce, sortTwice, spc>>

dedupeVars == <<candidates, scores, accepted, ci, dpc>>

---------------------------------------------------------------------------
(* Bounds of the model *)

\* longest news list of a topic in the input
MaxNews == 2

\* longest array handed to the sorter on its own
MaxSortLen == 3

\* most candidates of a topic handed to dedupe
MaxCandidates == 3

---------------------------------------------------------------------------
(* Strings *)

UpperChars ==
    <<"A","B","C","D","E","F","G","H","I","J","K","L","M","N","O","P","Q","R","S","T","U","V","W","X","Y","Z">>

LowerChars ==
    <<"a","b","c","d","e","f","g","h","i","j","k","l","m","n","o","p","q","r","s","t","u","v","w","x","y","z">>

DigitChars ==
    <<"0","1","2","3","4","5","6","7","8","9">>

\* the characters of the model in ascending UTF-16 code unit order
CodeOrder ==
    <<" ","&","-",".","/">> \o DigitChars \o <<":">> \o UpperChars \o LowerChars

Chars == {CodeOrder[i] : i \in DOMAIN CodeOrder}

\* index of character c in the sequence cs, 0 when absent
IndexOfChar(cs, c) ==
    IF \E i \in DOMAIN cs : cs[i] = c
    THEN CHOOSE i \in DOMAIN cs : cs[i] = c
    ELSE 0

\* the lower-case form of each character: the ASCII letters A-Z map to a-z
LowerCaseOf ==
    [c \in Chars |->
        IF IndexOfChar(UpperChars, c) > 0
        THEN LowerChars[IndexOfChar(UpperChars, c)]
        ELSE c]

\* the rank of each character by code unit
CodeRank == [c \in Chars |-> IndexOfChar(CodeOrder, c)]

\* String.prototype.toLowerCase
toLowerCase(s) == [i \in 1..Len(s) |-> LowerCaseOf[s[i]]]

\* String.prototype.includes: sub occurs in s at some offset
includes(s, sub) ==
    \E off \in 0..(Len(s) - Len(sub)) :
        \A j \in 1..Len(sub) : s[off + j] = sub[j]

---------------------------------------------------------------------------
(* Objects: insertion-ordered [key, val] entries *)

ObjKeys(obj) == [i \in 1..Len(obj) |-> obj[i].key]

ObjHas(obj, key) == \E i \in DOMAIN obj : obj[i].key = key

ObjGet(obj, key) == obj[CHOOSE i \in DOMAIN obj : obj[i].key = key].val

\* obj[key] = val
ObjSet(obj, key, val) ==
    IF ObjHas(obj, key)
    THEN [i \in 1..Len(obj) |->
            IF obj[i].key = key THEN [key |-> key, val |-> val] ELSE obj[i]]
    ELSE Append(obj, [key |-> key, val |-> val])

---------------------------------------------------------------------------
(* Quality filter: filterGenericNews *)

genericDomains ==
    << <<"w","i","k","i","p","e","d","i","a",".","o","r","g">>,
       <<"m","e","d","i","u","m",".","c","o","m">> >>

isGenericSource(url) ==
    \E d \in DOMAIN genericDomains : includes(url, genericDomains[d])

hasOnlyGenericSources(sources) ==
    IF Len(sources) = 0 THEN TRUE
    ELSE \A s \in DOMAIN sources : isGenericSource(sources[s])

\* topicData.news.filter(newsItem => !hasOnlyGenericSources(newsItem.sources))
filteredNews(topicData) ==
    SelectSeq(topicData.news,
              LAMBDA newsItem : ~hasOnlyGenericSources(newsItem.sources))

\* mutant: the length test is left out
topicKeptAlways(news) == TRUE

\* if (filteredNews.length > 0)
topicKept(news) == Len(news) > 0

\* mutant: the spread of topicData is left out
withNewsOnly(topicData, news) == [groups |-> <<>>, news |-> news]

\* { ...topicData, news: filteredNews }
withNews(topicData, news) == [topicData EXCEPT !.news = news]

RECURSIVE filterEntries(_, _)
filterEntries(entries, filtered) ==
    IF entries = <<>> THEN filtered
    ELSE LET topicName == Head(entries).key
             topicData == Head(entries).val
             kept      == filteredNews(topicData)
         IN  filterEntries(Tail(entries),
                 IF topicKept(kept)
                 THEN ObjSet(filtered, topicName, withNews(topicData, kept))
                 ELSE filtered)

\* mutant: the collection is returned as read
returnUnfiltered(collection) == collection

filterGenericNews(collection) == filterEntries(collection, <<>>)

---------------------------------------------------------------------------
(* Group taxonomy: noise labels *)

\* ignoredGroups of getFilteredGroups
ignoredGroupsFiltered ==
    << <<"r","e","c","e","n","t"," ","e","v","e","n","t","s">>,
       <<"l","a","t","e","s","t"," ","n","e","w","s">>,
       <<"b","r","e","a","k","i","n","g"," ","n","e","w","s">>,
       <<"r","e","c","e","n","t"," ","d","e","v","e","l","o","p","m","e","n","t","s">>,
       <<"p","o","l","i","t","i","c","s">> >>

\* ignoredGroups of getAllUniqueGroups
ignoredGroupsUnique ==
    << <<"r","e","c","e","n","t"," ","e","v","e","n","t","s">>,
       <<"l","a","t","e","s","t"," ","n","e","w","s">>,
       <<"b","r","e","a","k","i","n","g"," ","n","e","w","s">>,
       <<"r","e","c","e","n","t"," ","d","e","v","e","l","o","p","m","e","n","t","s">> >>

\* ignoredGroups of getNewsByGroups
ignoredGroups ==
    << <<"r","e","c","e","n","t"," ","e","v","e","n","t","s">>,
       <<"l","a","t","e","s","t"," ","n","e","w","s">>,
       <<"b","r","e","a","k","i","n","g"," ","n","e","w","s">>,
       <<"r","e","c","e","n","t"," ","d","e","v","e","l","o","p","m","e","n","t","s">> >>

\* mutant: the label is compared for equality, not searched for
matchesIgnoredExactly(group, ignored) ==
    toLowerCase(group) = toLowerCase(ignored)

\* group.toLowerCase().includes(ignored.toLowerCase())
matchesIgnored(group, ignored) ==
    includes(toLowerCase(group), toLowerCase(ignored))

\* ignoredList.some(ignored => group.toLowerCase().includes(ignored.toLowerCase()))
isIgnored(group, ignoredList) ==
    \E n \in DOMAIN ignoredList : matchesIgnored(group, ignoredList[n])

\* groups.filter(group => !ignoredList.some(...))
validGroupsOf(groups, ignoredList) ==
    SelectSeq(groups, LAMBDA group : ~isIgnored(group, ignoredList))

---------------------------------------------------------------------------
(* getFilteredGroups *)

RECURSIVE filteredGroupEntries(_, _)
filteredGroupEntries(entries, acc) ==
    IF entries = <<>> THEN acc
    ELSE LET groupName == Head(entries).key
             groupData == Head(entries).val
             valid     == validGroupsOf(groupData.groups, ignoredGroupsFiltered)
         IN  filteredGroupEntries(Tail(entries),
                 IF Len(valid) > 0
                 THEN ObjSet(acc, groupName, [groupData EXCEPT !.groups = valid])
                 ELSE acc)

getFilteredGroups(collection) == filteredGroupEntries(collection, <<>>)

---------------------------------------------------------------------------
(* getAllUniqueGroups *)

\* a < b as Array.prototype.sort without a comparator orders strings
StringLess(a, b) ==
    \/ /\ Len(a) < Len(b)
       /\ \A i \in 1..Len(a) : a[i] = b[i]
    \/ \E i \in 1..Len(a) :
          /\ i <= Len(b)
          /\ \A j \in 1..(i - 1) : a[j] = b[j]
          /\ CodeRank[a[i]] < CodeRank[b[i]]

RECURSIVE insertString(_, _)
insertString(sorted, x) ==
    IF sorted = <<>> THEN <<x>>
    ELSE IF StringLess(x, sorted[Len(sorted)])
         THEN Append(insertString(SubSeq(sorted, 1, Len(sorted) - 1), x),
                     sorted[Len(sorted)])
         ELSE Append(sorted, x)

\* Array.from(set).sort()
RECURSIVE sortStrings(_)
sortStrings(arr) ==
    IF arr = <<>> THEN <<>>
    ELSE insertString(sortStrings(SubSeq(arr, 1, Len(arr) - 1)), arr[Len(arr)])

\* Set.prototype.add on a Set kept in insertion order
SetAdd(set, x) ==
    IF \E i \in DOMAIN set : set[i] = x THEN set ELSE Append(set, x)

RECURSIVE addGroups(_, _, _)
addGroups(set, groups, ignoredList) ==
    IF groups = <<>> THEN set
    ELSE addGroups(IF ~isIgnored(Head(groups), ignoredList)
                   THEN SetAdd(set, Head(groups)) ELSE set,
                   Tail(groups), ignoredList)

RECURSIVE uniqueGroupSet(_, _)
uniqueGroupSet(entries, set) ==
    IF entries = <<>> THEN set
    ELSE uniqueGroupSet(Tail(entries),
             addGroups(set, Head(entries).val.groups, ignoredGroupsUnique))

getAllUniqueGroups(collection) == sortStrings(uniqueGroupSet(collection, <<>>))

---------------------------------------------------------------------------
(* getNewsByGroups: building the index *)

\* topicData.groups.filter(group => !ignoredGroups.some(...))
validGroups(topicData) == validGroupsOf(topicData.groups, ignoredGroups)

\* `${item.title}-${item.published_date}`
itemKey(item) == item.title \o <<"-">> \o item.published_date

MapHas(map, key) == key \in DOMAIN map

MapSet(map, key, val) ==
    [x \in (DOMAIN map) \cup {key} |-> IF x = key THEN val ELSE map[x]]

\* mutant: the summary is compared as well
sameItemAndSummary(existing, item) ==
    /\ existing.title = item.title
    /\ existing.published_date = item.published_date
    /\ existing.summary = item.summary

\* existing.title === item.title && existing.published_date === item.published_date
sameItem(existing, item) ==
    /\ existing.title = item.title
    /\ existing.published_date = item.published_date

\* { ...item, groups: Array.from(itemGroupMap.get(itemKey)) }
itemWithGroups(item, groupSet) ==
    [title |-> item.title, published_date |-> item.published_date,
     sources |-> item.sources, summary |-> item.summary, groups |-> groupSet]

\* the body of topicData.news.forEach(item => ...) for one item of one group;
\* st is [groupedNews, itemGroupMap]
addItem(st, group, item) ==
    LET key    == itemKey(item)
        map1   == IF ~MapHas(st.itemGroupMap, key)
                  THEN MapSet(st.itemGroupMap, key, <<>>)
                  ELSE st.itemGroupMap
        map2   == MapSet(map1, key, SetAdd(map1[key], group))
        rows   == ObjGet(st.groupedNews, group)
        found  == {i \in DOMAIN rows : sameItem(rows[i], item)}
        first  == CHOOSE i \in found : \A j \in found : i <= j
        rows2  == IF found = {}
                  THEN Append(rows, itemWithGroups(item, map2[key]))
                  ELSE [rows EXCEPT ![first].groups = map2[key]]
    IN  [groupedNews  |-> ObjSet(st.groupedNews, group, rows2),
         itemGroupMap |-> map2]

RECURSIVE addItems(_, _, _)
addItems(st, group, news) ==
    IF news = <<>> THEN st
    ELSE addItems(addItem(st, group, Head(news)), group, Tail(news))

\* the body of validGroups.forEach(group => ...) for one group of one topic
addGroup(st, group, topicData) ==
    LET st1 == IF ~ObjHas(st.groupedNews, group)
               THEN [st EXCEPT !.groupedNews = ObjSet(st.groupedNews, group, <<>>)]
               ELSE st
    IN  addItems(st1, group, topicData.news)

---------------------------------------------------------------------------
(* getNewsByGroups: the date sort *)

DigitVal(c) == IndexOfChar(DigitChars, c) - 1

IsDigit(c) == IndexOfChar(DigitChars, c) > 0

DaysInMonth(y, m) ==
    IF m = 2
    THEN (IF (y % 4 = 0 /\ y % 100 # 0) \/ y % 400 = 0 THEN 29 ELSE 28)
    ELSE IF m \in {4, 6, 9, 11} THEN 30 ELSE 31

\* days from 1970-01-01 to the civil date y-m-d
DaysFromCivil(y, m, d) ==
    LET yy  == IF m <= 2 THEN y - 1 ELSE y
        era == yy \div 400
        yoe == yy - era * 400
        mp  == IF m > 2 THEN m - 3 ELSE m + 9
        doy == (153 * mp + 2) \div 5 + d - 1
        doe == yoe * 365 + yoe \div 4 - yoe \div 100 + doy
    IN  era * 146097 + doe - 719468

\* new Date(s) for the date-only form YYYY-MM-DD (read as UTC midnight); any
\* other string of the model's inputs is an Invalid Date.  time is getTime()
\* in days, the unit every date-only value is a whole multiple of.
newDate(s) ==
    IF /\ Len(s) = 10
       /\ s[5] = "-" /\ s[8] = "-"
       /\ \A i \in {1, 2, 3, 4, 6, 7, 9, 10} : IsDigit(s[i])
    THEN LET y == DigitVal(s[1]) * 1000 + DigitVal(s[2]) * 100
                  + DigitVal(s[3]) * 10 + DigitVal(s[4])
             m == DigitVal(s[6]) * 10 + DigitVal(s[7])
             d == DigitVal(s[9]) * 10 + DigitVal(s[10])
         IN  IF m \in 1..12 /\ d \in 1..DaysInMonth(y, m)
             THEN [isNaN |-> FALSE, time |-> DaysFromCivil(y, m, d)]
             ELSE [isNaN |-> TRUE, time |-> 0]
    ELSE [isNaN |-> TRUE, time |-> 0]

\* mutant: the dates are compared oldest first
compareByDateAscending(a, b) ==
    LET dateA == newDate(a.published_date)
        dateB == newDate(b.published_date)
    IN  IF dateA.isNaN /\ dateB.isNaN THEN 0
        ELSE IF dateA.isNaN THEN 1
        ELSE IF dateB.isNaN THEN -1
        ELSE dateA.time - dateB.time

\* mutant: two invalid dates no longer compare equal
compareInvalidAfter(a, b) ==
    LET dateA == newDate(a.published_date)
        dateB == newDate(b.published_date)
    IN  IF dateA.isNaN THEN 1
        ELSE IF dateB.isNaN THEN -1
        ELSE dateB.time - dateA.time

\* the comparator handed to groupedNews[group].sort
compareByDate(a, b) ==
    LET dateA == newDate(a.published_date)
        dateB == newDate(b.published_date)
    IN  IF dateA.isNaN /\ dateB.isNaN THEN 0
        ELSE IF dateA.isNaN THEN 1
        ELSE IF dateB.isNaN THEN -1
        ELSE dateB.time - dateA.time

RECURSIVE insertByDate(_, _)
insertByDate(sorted, x) ==
    IF sorted = <<>> THEN <<x>>
    ELSE IF compareByDate(sorted[Len(sorted)], x) > 0
         THEN Append(insertByDate(SubSeq(sorted, 1, Len(sorted) - 1), x),
                     sorted[Len(sorted)])
         ELSE Append(sorted, x)

\* Array.prototype.sort(compareByDate): a stable sort
RECURSIVE sortByDate(_)
sortByDate(arr) ==
    IF arr = <<>> THEN <<>>
    ELSE insertByDate(sortByDate(SubSeq(arr, 1, Len(arr) - 1)), arr[Len(arr)])

---------------------------------------------------------------------------
(* Inputs *)

TopicNames == <<"Artificial Intelligence", "Climate">>

UrlMedium ==
    <<"h","t","t","p","s",":","/","/","m","e","d","i","u","m",".","c","o","m","/","x">>

UrlWikipedia ==
    <<"h","t","t","p","s",":","/","/","e","n",".","w","i","k","i","p","e","d","i","a",".","o","r","g","/","y">>

UrlBbc ==
    <<"h","t","t","p","s",":","/","/","b","b","c",".","c","o","m","/","z">>

\* a bbc.com article whose path mentions medium.com
UrlBbcAboutMedium ==
    <<"h","t","t","p","s",":","/","/","b","b","c",".","c","o","m","/","m","e","d","i","u","m",".","c","o","m">>

GroupTechnology == <<"T","e","c","h","n","o","l","o","g","y">>

GroupScience == <<"S","c","i","e","n","c","e">>

GroupRecentEvents == <<"R","e","c","e","n","t"," ","E","v","e","n","t","s">>

GroupRecentEventsPolitics ==
    <<"R","e","c","e","n","t"," ","E","v","e","n","t","s"," ","&"," ","P","o","l","i","t","i","c","s">>

GroupPolitics == <<"P","o","l","i","t","i","c","s">>

DateMarch == <<"2","0","2","4","-","0","3","-","0","1">>

DateMay == <<"2","0","2","4","-","0","5","-","0","1">>

DateNotADate == <<"n","o","t","-","a","-","d","a","t","e">>

DateTbd == <<"T","B","D">>

\* all arrays over S of length at most n
ArraysUpTo(S, n) == UNION {[1..m -> S] : m \in 0..n}

\* the collections with one entry per topic name, each topic's groups drawn from
\* groupLists and its news an array of at most MaxNews items
Collections(groupLists, items) ==
    {[i \in 1..Len(TopicNames) |-> [key |-> TopicNames[i], val |-> td[i]]] :
        td \in [1..Len(TopicNames) ->
                  [groups : groupLists, news : ArraysUpTo(items, MaxNews)]]}

Item(title, date, sources, summary) ==
    [title |-> title, published_date |-> date, sources |-> sources,
     summary |-> summary]

\* inputs that vary the source lists
FilterItems ==
    { Item(<<"a">>, <<"c">>, srcs, "s1") :
        srcs \in { <<>>, <<UrlMedium, UrlWikipedia>>, <<UrlBbc>>,
                   <<UrlWikipedia, UrlBbc>>, <<UrlBbcAboutMedium>> } }

\* inputs that vary the group labels; the items are one article, the same
\* (title, published_date) under another summary and source, and an article
\* whose title and date differ but concatenate to the same `title-date`
GroupLists ==
    { <<GroupRecentEvents, GroupTechnology>>, <<GroupRecentEventsPolitics>>,
      <<GroupTechnology, GroupScience>>, <<GroupPolitics>> }

GroupItems ==
    { Item(<<"a">>, <<"b","-","c">>, <<UrlBbc>>, "s1"),
      Item(<<"a">>, <<"b","-","c">>, <<UrlWikipedia, UrlBbc>>, "s2"),
      Item(<<"a","-","b">>, <<"c">>, <<UrlBbc>>, "s1") }

\* inputs that vary the dates
DateItems ==
    { Item(<<"a">>, DateMarch, <<UrlBbc>>, "s1"),
      Item(<<"a">>, DateMay, <<UrlBbc>>, "s1"),
      Item(<<"b">>, DateMay, <<UrlBbc>>, "s1"),
      Item(<<"a">>, DateNotADate, <<UrlBbc>>, "s1"),
      Item(<<"b">>, DateTbd, <<UrlBbc>>, "s1") }

\* inputs that mix rejected and surviving articles under several labels: an
\* article with only generic sources, the same title and date with a good
\* source, and an article without sources
LoadGroupLists ==
    { <<GroupTechnology>>, <<GroupScience>>, <<GroupRecentEvents, GroupTechnology>> }

LoadItems ==
    { Item(<<"a">>, <<"c">>, <<UrlMedium, UrlWikipedia>>, "s1"),
      Item(<<"a">>, <<"c">>, <<UrlBbc>>, "s2"),
      Item(<<"b">>, <<"c">>, <<>>, "s1") }

\* rows handed to the sorter on its own
SortRows ==
    { itemWithGroups(Item(<<"a">>, d, <<UrlBbc>>, "s1"), <<GroupTechnology>>) :
        d \in {DateMarch, DateMay, DateNotADate, DateTbd} }
    \cup { itemWithGroups(Item(<<"b">>, DateMay, <<UrlBbc>>, "s1"),
                          <<GroupTechnology>>) }

---------------------------------------------------------------------------
(* The page build: loadNewsData, then the three views of the collection *)

InitPipeline(collections) ==
    /\ data \in collections
    /\ newsCollection = <<>>
    /\ filteredData = <<>>
    /\ allGroups = <<>>
    /\ groupedNews = <<>>
    /\ itemGroupMap = <<>>
    /\ t = 1
    /\ g = 1
    /\ k = 1
    /\ pc = "load"
    /\ sortItems = <<>>
    /\ sortOnce = <<>>
    /\ sortTwice = <<>>
    /\ spc = "idle"
    /\ candidates = <<>>
    /\ scores = <<>>
    /\ accepted = <<>>
    /\ ci = 1
    /\ dpc = "idle"

Init == InitPipeline(Collections(GroupLists, GroupItems))

InitFilter == InitPipeline(Collections({<<GroupTechnology>>}, FilterItems))

InitDates == InitPipeline(Collections({<<GroupTechnology>>}, DateItems))

InitLoad == InitPipeline(Collections(LoadGroupLists, LoadItems))

\* loadNewsData: return filterGenericNews(data)
Load ==
    /\ pc = "load"
    /\ newsCollection' = filterGenericNews(data)
    /\ pc' = "filteredGroups"
    /\ UNCHANGED <<data, filteredData, allGroups, groupedNews, itemGroupMap,
                   t, g, k>>
    /\ UNCHANGED sorterVars
    /\ UNCHANGED dedupeVars

GetFilteredGroups ==
    /\ pc = "filteredGroups"
    /\ filteredData' = getFilteredGroups(newsCollection)
    /\ pc' = "uniqueGroups"
    /\ UNCHANGED <<data, newsCollection, allGroups, groupedNews, itemGroupMap,
                   t, g, k>>
    /\ UNCHANGED sorterVars
    /\ UNCHANGED dedupeVars

GetAllUniqueGroups ==
    /\ pc = "uniqueGroups"
    /\ allGroups' = getAllUniqueGroups(newsCollection)
    /\ pc' = "byGroups"
    /\ UNCHANGED <<data, newsCollection, filteredData, groupedNews,
                   itemGroupMap, t, g, k>>
    /\ UNCHANGED sorterVars
    /\ UNCHANGED dedupeVars

\* getNewsByGroups: one pass of validGroups.forEach for the topic visited
AddGroup ==
    /\ pc = "byGroups"
    /\ t <= Len(newsCollection)
    /\ g <= Len(validGroups(newsCollection[t].val))
    /\ LET topicData == newsCollection[t].val
           st == addGroup([groupedNews |-> groupedNews,
                           itemGroupMap |-> itemGroupMap],
                          validGroups(topicData)[g], topicData)
       IN  /\ groupedNews' = st.groupedNews
           /\ itemGroupMap' = st.itemGroupMap
    /\ g' = g + 1
    /\ UNCHANGED <<data, newsCollection, filteredData, allGroups, t, k, pc>>
    /\ UNCHANGED sorterVars
    /\ UNCHANGED dedupeVars

\* getNewsByGroups: the topic's valid groups are exhausted, visit the next topic
NextTopic ==
    /\ pc = "byGroups"
    /\ t <= Len(newsCollection)
    /\ g > Len(validGroups(newsCollection[t].val))
    /\ t' = t + 1
    /\ g' = 1
    /\ UNCHANGED <<data, newsCollection, filteredData, allGroups, groupedNews,
                   itemGroupMap, k, pc>>
    /\ UNCHANGED sorterVars
    /\ UNCHANGED dedupeVars

\* getNewsByGroups: every topic visited, start on Object.keys(groupedNews)
StartSort ==
    /\ pc = "byGroups"
    /\ t > Len(newsCollection)
    /\ k' = 1
    /\ pc' = "sort"
    /\ UNCHANGED <<data, newsCollection, filteredData, allGroups, groupedNews,
                   itemGroupMap, t, g>>
    /\ UNCHANGED sorterVars
    /\ UNCHANGED dedupeVars

\* getNewsByGroups: groupedNews[group].sort(...) for the k-th key
SortGroup ==
    /\ pc = "sort"
    /\ k <= Len(groupedNews)
    /\ groupedNews' = [groupedNews EXCEPT ![k].val = sortByDate(groupedNews[k].val)]
    /\ k' = k + 1
    /\ UNCHANGED <<data, newsCollection, filteredData, allGroups, itemGroupMap,
                   t, g, pc>>
    /\ UNCHANGED sorterVars
    /\ UNCHANGED dedupeVars

\* getNewsByGroups: return groupedNews
Return ==
    /\ pc = "sort"
    /\ k > Len(groupedNews)
    /\ pc' = "done"
    /\ UNCHANGED <<data, newsCollection, filteredData, allGroups, groupedNews,
                   itemGroupMap, t, g, k>>
    /\ UNCHANGED sorterVars
    /\ UNCHANGED dedupeVars

Next ==
    \/ Load
    \/ GetFilteredGroups
    \/ GetAllUniqueGroups
    \/ AddGroup
    \/ NextTopic
    \/ StartSort
    \/ SortGroup
    \/ Return

\* group labels vary
Spec == Init /\ [][Next]_vars

\* source lists vary
SpecFilter == InitFilter /\ [][Next]_vars

\* dates vary
SpecDates == InitDates /\ [][Next]_vars

\* rejected and surviving articles under several labels
SpecLoad == InitLoad /\ [][Next]_vars

---------------------------------------------------------------------------
(* The sorter on its own: sort applied once, then again to its own result *)

InitSorter ==
    /\ sortItems \in ArraysUpTo(SortRows, MaxSortLen)
    /\ sortOnce = <<>>
    /\ sortTwice = <<>>
    /\ spc = "start"
    /\ data = <<>>
    /\ newsCollection = <<>>
    /\ filteredData = <<>>
    /\ allGroups = <<>>
    /\ groupedNews = <<>>
    /\ itemGroupMap = <<>>
    /\ t = 1
    /\ g = 1
    /\ k = 1
    /\ pc = "idle"
    /\ candidates = <<>>
    /\ scores = <<>>
    /\ accepted = <<>>
    /\ ci = 1
    /\ dpc = "idle"

SortOnce ==
    /\ spc = "start"
    /\ sortOnce' = sortByDate(sortItems)
    /\ spc' = "once"
    /\ UNCHANGED <<sortItems, sortTwice>>
    /\ UNCHANGED pipelineVars
    /\ UNCHANGED dedupeVars

SortTwice ==
    /\ spc = "once"
    /\ sortTwice' = sortByDate(sortOnce)
    /\ spc' = "twice"
    /\ UNCHANGED <<sortItems, sortOnce>>
    /\ UNCHANGED pipelineVars
    /\ UNCHANGED dedupeVars

NextSorter == SortOnce \/ SortTwice

SpecSorter == InitSorter /\ [][NextSorter]_vars

---------------------------------------------------------------------------
(* Deduplicator: dedupe(candidates, threshold), one topic's candidates *)

\* similarity_threshold, in hundredths
threshold == 95

\* what the Similarity Scorer may return for a pair, in hundredths: below the
\* threshold, equal to it, above it, and a value outside [0,1]
ScoreValues == {94, 95, 97, 120}

\* the i-th candidate's title: "X v1", "X v2", ...
CandidateTitle(i) == <<"X"," ","v", DigitChars[i + 1]>>

\* the unordered pairs of candidate indices
Pairs(n) == {{i, j} : i, j \in 1..n} \ {{i} : i \in 1..n}

\* the Similarity Scorer's answer for candidates i and j
score(i, j) == scores[{i, j}]

\* mutant: a similarity equal to the threshold does not count
isDuplicateAbove(i, j) ==
    /\ score(i, j) \in 0..100
    /\ score(i, j) > threshold

\* similarity >= threshold; an out-of-range answer is a non-duplicate
isDuplicate(i, j) ==
    /\ score(i, j) \in 0..100
    /\ score(i, j) >= threshold

\* the source URLs of from added to those of into, each URL once
RECURSIVE mergeSources(_, _)
mergeSources(into, from) ==
    IF from = <<>> THEN into
    ELSE mergeSources(SetAdd(into, Head(from)), Tail(from))

\* one candidate processed: merged into the first accepted article it
\* duplicates, or accepted as a new article; an accepted article is
\* [cand: index of the candidate it came from, sources: its merged sources]
dedupeStep(acc, c) ==
    LET dups  == {a \in DOMAIN acc : isDuplicate(acc[a].cand, c)}
        first == CHOOSE a \in dups : \A b \in dups : a <= b
    IN  IF dups # {}
        THEN [acc EXCEPT ![first].sources =
                  mergeSources(acc[first].sources, candidates[c].sources)]
        ELSE Append(acc, [cand |-> c, sources |-> candidates[c].sources])

InitDedupe ==
    /\ \E n \in 0..MaxCandidates :
          /\ candidates \in
                {[i \in 1..n |-> Item(CandidateTitle(i), DateMarch, <<u[i]>>, "s1")] :
                    u \in [1..n -> {UrlBbc, UrlMedium}]}
          /\ scores \in [Pairs(n) -> ScoreValues]
    /\ accepted = <<>>
    /\ ci = 1
    /\ dpc = "run"
    /\ data = <<>>
    /\ newsCollection = <<>>
    /\ filteredData = <<>>
    /\ allGroups = <<>>
    /\ groupedNews = <<>>
    /\ itemGroupMap = <<>>
    /\ t = 1
    /\ g = 1
    /\ k = 1
    /\ pc = "idle"
    /\ sortItems = <<>>
    /\ sortOnce = <<>>
    /\ sortTwice = <<>>
    /\ spc = "idle"

\* dedupe: the next candidate in discovery order
DedupeCandidate ==
    /\ dpc = "run"
    /\ ci <= Len(candidates)
    /\ accepted' = dedupeStep(accepted, ci)
    /\ ci' = ci + 1
    /\ UNCHANGED <<candidates, scores, dpc>>
    /\ UNCHANGED pipelineVars
    /\ UNCHANGED sorterVars

\* dedupe: every candidate processed, the accepted articles are the result
DedupeReturn ==
    /\ dpc = "run"
    /\ ci > Len(candidates)
    /\ dpc' = "done"
    /\ UNCHANGED <<candidates, scores, accepted, ci>>
    /\ UNCHANGED pipelineVars
    /\ UNCHANGED sorterVars

NextDedupe == DedupeCandidate \/ DedupeReturn

SpecDedupe == InitDedupe /\ [][NextDedupe]_vars

---------------------------------------------------------------------------
(* Quality filter: properties *)

\* the host of a URL: what lies between "://" and the next "/"
UrlHost(url) ==
    LET starts == {i \in 1..(Len(url) - 2) :
                       SubSeq(url, i, i + 2) = <<":","/","/">>}
        from   == IF starts = {} THEN 1
                  ELSE (CHOOSE i \in starts : \A j \in starts : i <= j) + 3
        stops  == {i \in from..Len(url) : url[i] = "/"}
        to     == IF stops = {} THEN Len(url)
                  ELSE (CHOOSE i \in stops : \A j \in stops : i <= j) - 1
    IN  SubSeq(url, from, to)

\* the low-value domains: wikipedia.org and medium.com
LowValueDomains ==
    { <<"w","i","k","i","p","e","d","i","a",".","o","r","g">>,
      <<"m","e","d","i","u","m",".","c","o","m">> }

\* the URL's host is a low-value domain or a subdomain of one
HasLowValueDomain(url) ==
    \E d \in LowValueDomains :
        LET host == UrlHost(url)
        IN  \/ host = d
            \/ /\ Len(host) > Len(d)
               /\ SubSeq(host, Len(host) - Len(d), Len(host)) = <<".">> \o d

\* the news list of the topic in the loaded collection, empty when it is absent
LoadedNews(topicName) ==
    IF ObjHas(newsCollection, topicName)
    THEN ObjGet(newsCollection, topicName).news
    ELSE <<>>

InLoadedNews(topicName, article) ==
    \E i \in DOMAIN LoadedNews(topicName) : LoadedNews(topicName)[i] = article

\* C1: once the collection is loaded, an article of the input is missing from
\* its topic's filtered news exactly when its source list is empty or every
\* source URL has a low-value domain.
C1_RejectedIffLowValueDomains ==
    pc # "load" =>
        \A e \in DOMAIN data :
            \A i \in DOMAIN data[e].val.news :
                LET article == data[e].val.news[i]
                IN  (~InLoadedNews(data[e].key, article))
                    <=> \/ article.sources = <<>>
                        \/ \A s \in DOMAIN article.sources :
                              HasLowValueDomain(article.sources[s])

\* C2: once the collection is loaded, a topic of the input is absent from it
\* exactly when every one of its articles has only generic sources, and every
\* topic present has a non-empty news list.
C2_TopicDroppedIffNoSurvivor ==
    pc # "load" =>
        /\ \A e \in DOMAIN data :
              (~ObjHas(newsCollection, data[e].key))
              <=> \A i \in DOMAIN data[e].val.news :
                      hasOnlyGenericSources(data[e].val.news[i].sources)
        /\ \A o \in DOMAIN newsCollection :
              /\ Len(newsCollection[o].val.news) > 0
              /\ ObjHas(data, newsCollection[o].key)

\* C2 witness: one topic lost all of its articles and was dropped, the other
\* kept an article and is present.
C2_Witness ==
    /\ pc # "load"
    /\ \E e \in DOMAIN data :
          /\ Len(data[e].val.news) > 0
          /\ ~ObjHas(newsCollection, data[e].key)
    /\ \E e \in DOMAIN data :
          /\ ObjHas(newsCollection, data[e].key)
          /\ Len(LoadedNews(data[e].key)) < Len(data[e].val.news)

\* sub holds elements of full, in the order they have in full
IsOrderedSubSeq(sub, full) ==
    \E f \in [DOMAIN sub -> DOMAIN full] :
        /\ \A i, j \in DOMAIN sub : i < j => f[i] < f[j]
        /\ \A i \in DOMAIN sub : sub[i] = full[f[i]]

\* every topic of the loaded collection is a topic of the input with the same
\* declared groups, and its articles are articles of that topic, field for
\* field, in their original relative order
LoadedPreservesInput ==
    \A o \in DOMAIN newsCollection :
        /\ ObjHas(data, newsCollection[o].key)
        /\ newsCollection[o].val.groups = ObjGet(data, newsCollection[o].key).groups
        /\ IsOrderedSubSeq(newsCollection[o].val.news,
                           ObjGet(data, newsCollection[o].key).news)

\* C3: no step changes the input collection, and the step that filters it
\* yields a collection whose topics keep their groups and whose articles are
\* unchanged and in their original order.
C3_FilterLeavesInputAndFields ==
    [][/\ data' = data
       /\ pc = "load" => LoadedPreservesInput']_vars

\* C3 witness: a topic came out with two different articles, and a topic lost
\* one article and kept another.
C3_Witness ==
    /\ pc # "load"
    /\ \E o \in DOMAIN newsCollection :
          /\ Len(newsCollection[o].val.news) = 2
          /\ newsCollection[o].val.news[1] # newsCollection[o].val.news[2]
    /\ \E e \in DOMAIN data :
          /\ Len(data[e].val.news) = 2
          /\ Len(LoadedNews(data[e].key)) = 1

---------------------------------------------------------------------------
(* Group taxonomy: properties *)

Range(seq) == {seq[i] : i \in DOMAIN seq}

\* the noise labels of the group-keyed view
NoiseLabels ==
    { <<"r","e","c","e","n","t"," ","e","v","e","n","t","s">>,
      <<"l","a","t","e","s","t"," ","n","e","w","s">>,
      <<"b","r","e","a","k","i","n","g"," ","n","e","w","s">>,
      <<"r","e","c","e","n","t"," ","d","e","v","e","l","o","p","m","e","n","t","s">> }

\* the same character, or the same ASCII letter in another case
SameIgnoringCase(c, d) ==
    \/ c = d
    \/ \E i \in DOMAIN UpperChars :
          {c, d} = {UpperChars[i], LowerChars[i]}

\* the label occurs in the group's text at some offset, whatever the case
ContainsLabel(group, label) ==
    \E off \in 0..(Len(group) - Len(label)) :
        \A j \in 1..Len(label) : SameIgnoringCase(group[off + j], label[j])

IsNoise(group) == \E label \in NoiseLabels : ContainsLabel(group, label)

\* the declared groups that contain no noise label
NonNoise(groups) == {groups[i] : i \in {j \in DOMAIN groups : ~IsNoise(groups[j])}}

SameIdentity(a, b) ==
    a.title = b.title /\ a.published_date = b.published_date

\* the keys of groupedNews whose list holds a row with the article's identity
GroupsHolding(article) ==
    {groupedNews[e].key : e \in {x \in DOMAIN groupedNews :
        \E i \in DOMAIN groupedNews[x].val :
            SameIdentity(groupedNews[x].val[i], article)}}

\* C4: the valid groups of every topic are its declared groups without those
\* whose text contains a noise label in any case, at any offset; they are the
\* keys of getNewsByGroups and the result of getAllUniqueGroups, and every
\* article of a topic has a row under each of the topic's non-noise groups.
C4_ValidGroupsAreDeclaredMinusNoise ==
    pc = "done" =>
        /\ \A e \in DOMAIN newsCollection :
              LET topicData == newsCollection[e].val
              IN  /\ validGroups(topicData)
                       = SelectSeq(topicData.groups, LAMBDA grp : ~IsNoise(grp))
                  /\ \A i \in DOMAIN topicData.news :
                        NonNoise(topicData.groups) \subseteq GroupsHolding(topicData.news[i])
        /\ Range(ObjKeys(groupedNews))
             = UNION {NonNoise(newsCollection[e].val.groups) : e \in DOMAIN newsCollection}
        /\ Range(allGroups)
             = UNION {NonNoise(newsCollection[e].val.groups) : e \in DOMAIN newsCollection}

\* C4 witness: a topic declared ["Recent Events", "Technology"], a topic
\* declared "Recent Events & Politics"; Technology is a key and neither
\* "Recent Events" nor "Recent Events & Politics" is.
C4_Witness ==
    /\ pc = "done"
    /\ \E e \in DOMAIN newsCollection :
          newsCollection[e].val.groups = <<GroupRecentEvents, GroupTechnology>>
    /\ \E e \in DOMAIN newsCollection :
          newsCollection[e].val.groups = <<GroupRecentEventsPolitics>>
    /\ Range(ObjKeys(groupedNews)) = {GroupTechnology}
    /\ allGroups = <<GroupTechnology>>

\* C5: at every step of getNewsByGroups, no group list holds two rows with the
\* same title and published_date.
C5_NoDuplicateRows ==
    \A e \in DOMAIN groupedNews :
        \A i, j \in DOMAIN groupedNews[e].val :
            i # j => ~SameIdentity(groupedNews[e].val[i], groupedNews[e].val[j])

\* C5 witness: two topics both contribute a group and both carry an article
\* with the same title and published_date; the run has finished.
C5_Witness ==
    /\ pc = "done"
    /\ \E e1, e2 \in DOMAIN newsCollection :
          /\ e1 # e2
          /\ \E grp \in NonNoise(newsCollection[e1].val.groups)
                        \cap NonNoise(newsCollection[e2].val.groups) :
             \E i \in DOMAIN newsCollection[e1].val.news :
             \E j \in DOMAIN newsCollection[e2].val.news :
                /\ SameIdentity(newsCollection[e1].val.news[i],
                                newsCollection[e2].val.news[j])
                /\ newsCollection[e1].val.news[i] # newsCollection[e2].val.news[j]
                /\ grp \in Range(ObjKeys(groupedNews))
    /\ \E e \in DOMAIN newsCollection :
          /\ Len(newsCollection[e].val.news) = 2
          /\ SameIdentity(newsCollection[e].val.news[1], newsCollection[e].val.news[2])

\* C6: in the returned index, every row's groups annotation holds every group
\* whose list has a row for the same title and published_date.
C6_RowsCarryAllGroups ==
    pc = "done" =>
        \A e \in DOMAIN groupedNews :
            \A i \in DOMAIN groupedNews[e].val :
                GroupsHolding(groupedNews[e].val[i])
                    \subseteq Range(groupedNews[e].val[i].groups)

\* C9: a topic all of whose groups are noise gives the index no key and no
\* row (every key and every row is owed to another topic), and it is present
\* with its article list in the collection and in the getFilteredGroups view.
C9_NoiseOnlyTopicKeptInTopicViews ==
    pc = "done" =>
        \A e \in DOMAIN newsCollection :
            NonNoise(newsCollection[e].val.groups) = {} =>
                /\ \A x \in DOMAIN groupedNews :
                      \A i \in DOMAIN groupedNews[x].val :
                          \E e2 \in DOMAIN newsCollection :
                              /\ e2 # e
                              /\ groupedNews[x].key \in NonNoise(newsCollection[e2].val.groups)
                              /\ \E j \in DOMAIN newsCollection[e2].val.news :
                                    SameIdentity(newsCollection[e2].val.news[j],
                                                 groupedNews[x].val[i])
                /\ \A x \in DOMAIN groupedNews :
                      \E e2 \in DOMAIN newsCollection :
                          e2 # e /\ groupedNews[x].key \in NonNoise(newsCollection[e2].val.groups)
                /\ newsCollection[e].val.news = ObjGet(data, newsCollection[e].key).news
                /\ ObjHas(filteredData, newsCollection[e].key)
                /\ ObjGet(filteredData, newsCollection[e].key).news
                     = newsCollection[e].val.news

\* C10: in the returned index, every row has the sources and the summary of
\* every article with its title and published_date in a topic that contributes
\* the row's group.
C10_RowsMatchTopicArticles ==
    pc = "done" =>
        \A x \in DOMAIN groupedNews :
            \A i \in DOMAIN groupedNews[x].val :
                \A e \in DOMAIN newsCollection :
                    groupedNews[x].key \in NonNoise(newsCollection[e].val.groups) =>
                        \A j \in DOMAIN newsCollection[e].val.news :
                            SameIdentity(newsCollection[e].val.news[j], groupedNews[x].val[i])
                            => /\ newsCollection[e].val.news[j].sources
                                    = groupedNews[x].val[i].sources
                               /\ newsCollection[e].val.news[j].summary
                                    = groupedNews[x].val[i].summary

---------------------------------------------------------------------------
(* Date sort: properties *)

Unparseable(row) == newDate(row.published_date).isNaN

Timestamp(row) == newDate(row.published_date).time

Dates(rows) == [i \in DOMAIN rows |-> rows[i].published_date]

Count(rows, row) == Cardinality({i \in DOMAIN rows : rows[i] = row})

\* new holds the rows of old: those with a parseable date first, newest
\* first, then those with an unparseable date in the order they had in old
SortedFrom(old, new) ==
    /\ Len(new) = Len(old)
    /\ \A i \in DOMAIN old : Count(new, old[i]) = Count(old, old[i])
    /\ \A i, j \in DOMAIN new :
          i < j => /\ Unparseable(new[i]) => Unparseable(new[j])
                   /\ ~Unparseable(new[j]) => Timestamp(new[i]) >= Timestamp(new[j])
    /\ SelectSeq(new, Unparseable) = SelectSeq(old, Unparseable)

\* C7: the sort of a group list puts the rows with a parseable date first, in
\* descending timestamp order, and leaves the rows with an unparseable date in
\* the order of insertion; '2024-03-01', 'not-a-date', '2024-05-01' become
\* '2024-05-01', '2024-03-01', 'not-a-date'.
C7_GroupListSortedByDate ==
    [][(pc = "sort" /\ k' = k + 1) =>
          /\ SortedFrom(groupedNews[k].val, groupedNews'[k].val)
          /\ Dates(groupedNews[k].val) = <<DateMarch, DateNotADate, DateMay>>
                => Dates(groupedNews'[k].val) = <<DateMay, DateMarch, DateNotADate>>]_vars

\* C7 witness: the rows were inserted in the order TBD, 2024-03-01,
\* not-a-date, 2024-05-01 and the returned list is 2024-05-01, 2024-03-01,
\* TBD, not-a-date.
C7_Witness ==
    /\ pc = "done"
    /\ Len(newsCollection) = 2
    /\ Dates(newsCollection[1].val.news) = <<DateTbd, DateMarch>>
    /\ Dates(newsCollection[2].val.news) = <<DateNotADate, DateMay>>
    /\ Len(groupedNews) = 1
    /\ Dates(groupedNews[1].val) = <<DateMay, DateMarch, DateTbd, DateNotADate>>

\* C8: sorting the result of the sort again returns that result.
C8_SortIdempotent ==
    spc = "twice" => sortTwice = sortOnce

\* C8 witness: an array with two rows of unparseable dates and a row with a
\* parseable one that the first sort reordered, sorted a second time.
C8_Witness ==
    /\ spc = "twice"
    /\ sortOnce # sortItems
    /\ \E i, j \in DOMAIN sortItems :
          /\ Unparseable(sortItems[i])
          /\ Unparseable(sortItems[j])
          /\ sortItems[i] # sortItems[j]
    /\ \E i \in DOMAIN sortItems : ~Unparseable(sortItems[i])

---------------------------------------------------------------------------
(* Deduplicator: properties *)

\* the scorer gave the pair a similarity in [0,1] that reaches the threshold
SimilarAtThreshold(i, j) ==
    /\ scores[{i, j}] >= 0
    /\ scores[{i, j}] <= 100
    /\ scores[{i, j}] >= threshold

\* no two accepted articles have a similarity that reaches the threshold
AcceptedPairwiseDistinct ==
    \A a, b \in DOMAIN accepted :
        a # b => ~SimilarAtThreshold(accepted[a].cand, accepted[b].cand)

\* the accepted articles the candidate being processed is similar to
Matches == {a \in DOMAIN accepted : SimilarAtThreshold(accepted[a].cand, ci)}

\* C11: a candidate similar (at or above the threshold) to an accepted article
\* adds no article and its source URLs go to the earliest such article, the
\* others staying as they were; a candidate below the threshold for every
\* accepted article is appended with its own sources; so no two accepted
\* articles ever have a similarity at or above the threshold.
C11_DedupeMergesAtThreshold ==
    [][(dpc = "run" /\ ci' = ci + 1) =>
          /\ Matches # {} =>
                LET first == CHOOSE a \in Matches : \A b \in Matches : a <= b
                IN  /\ Len(accepted') = Len(accepted)
                    /\ \A a \in DOMAIN accepted :
                          a # first => accepted'[a] = accepted[a]
                    /\ accepted'[first].cand = accepted[first].cand
                    /\ Range(accepted'[first].sources)
                         = Range(accepted[first].sources)
                           \cup Range(candidates[ci].sources)
          /\ Matches = {} =>
                accepted' = Append(accepted,
                                   [cand |-> ci, sources |-> candidates[ci].sources])
          /\ AcceptedPairwiseDistinct']_vars

\* C11 witness: of three candidates the second has similarity exactly 0.95
\* to the first and was merged into it, bringing a second URL; the third is
\* at 0.94 from both and was kept.
C11_Witness ==
    /\ dpc = "done"
    /\ Len(candidates) = 3
    /\ scores[{1, 2}] = threshold
    /\ scores[{1, 3}] = threshold - 1
    /\ scores[{2, 3}] = threshold - 1
    /\ Len(accepted) = 2
    /\ accepted[1].cand = 1
    /\ Len(accepted[1].sources) = 2
    /\ accepted[2].cand = 3

---------------------------------------------------------------------------
(* Loading before grouping: properties *)

\* the entries of the input with an article the quality filter lets through
SurvivingTopics ==
    {e \in DOMAIN data :
        \E i \in DOMAIN data[e].val.news :
            ~hasOnlyGenericSources(data[e].val.news[i].sources)}

\* the non-noise labels of the input topics that keep an article
SurvivingLabels == UNION {NonNoise(data[e].val.groups) : e \in SurvivingTopics}

\* C12: the group views are computed from the filtered collection: every
\* label of getAllUniqueGroups and every key of getNewsByGroups is a label of
\* a topic that kept an article, and every row is, field for field, an
\* article the filter let through, in a topic that declares the row's group.
C12_FilterRunsBeforeGrouping ==
    pc = "done" =>
        /\ Range(allGroups) \subseteq SurvivingLabels
        /\ Range(ObjKeys(groupedNews)) \subseteq SurvivingLabels
        /\ \A x \in DOMAIN groupedNews :
              \A i \in DOMAIN groupedNews[x].val :
                  /\ ~hasOnlyGenericSources(groupedNews[x].val[i].sources)
                  /\ \E e \in SurvivingTopics :
                        /\ groupedNews[x].key \in Range(data[e].val.groups)
                        /\ \E j \in DOMAIN data[e].val.news :
                              /\ SameIdentity(data[e].val.news[j], groupedNews[x].val[i])
                              /\ data[e].val.news[j].sources = groupedNews[x].val[i].sources
                              /\ data[e].val.news[j].summary = groupedNews[x].val[i].summary

\* C12 witness: the Science topic lost both of its articles, the Technology
\* topic lost one of two; the views hold Technology only, with one row.
C12_Witness ==
    /\ pc = "done"
    /\ \E e \in DOMAIN data :
          /\ data[e].val.groups = <<GroupScience>>
          /\ Len(data[e].val.news) = 2
          /\ e \notin SurvivingTopics
    /\ \E e \in SurvivingTopics :
          /\ data[e].val.groups = <<GroupTechnology>>
          /\ Len(data[e].val.news) = 2
          /\ hasOnlyGenericSources(data[e].val.news[1].sources)
    /\ allGroups = <<GroupTechnology>>
    /\ ObjKeys(groupedNews) = <<GroupTechnology>>
    /\ Len(groupedNews[1].val) = 1

---------------------------------------------------------------------------
(* The two views: properties *)

\* the keys of the group-keyed view the topic contributes to: the groups it
\* declares that are keys (every topic of the loaded collection has news)
ContributedKeys(topicData) ==
    Range(topicData.groups) \cap Range(ObjKeys(groupedNews))

\* C13: for every topic of the collection, the groups the getFilteredGroups
\* view resolves for it are exactly the keys of getNewsByGroups it
\* contributes to, and a topic that contributes to a key is in that view.
C13_ViewsResolveSameGroups ==
    pc = "done" =>
        \A e \in DOMAIN newsCollection :
            LET topicName == newsCollection[e].key
                topicData == newsCollection[e].val
            IN  /\ ContributedKeys(topicData) # {} => ObjHas(filteredData, topicName)
                /\ ObjHas(filteredData, topicName) =>
                      Range(ObjGet(filteredData, topicName).groups)
                        = ContributedKeys(topicData)

\* C14: in the returned index every row's groups holds the key it is filed
\* under, and every label in it is a key whose list has a row with the same
\* title and published_date.
C14_GroupAnnotationsSound ==
    pc = "done" =>
        \A x \in DOMAIN groupedNews :
            \A i \in DOMAIN groupedNews[x].val :
                /\ groupedNews[x].key \in Range(groupedNews[x].val[i].groups)
                /\ Range(groupedNews[x].val[i].groups)
                     \subseteq GroupsHolding(groupedNews[x].val[i])

=============================================================================
